---- MODULE Spec2Model ----
(***************************************************************************)
(* Module loading and export publication of the enigma VM                  *)
(* (src/src/module.rs): Module::process_exports, load_module and           *)
(* finish_loading_modules, run by concurrent threads that share the        *)
(* module registry (vm.modules, a mutex) and the exports table             *)
(* (vm.exports, a read/write lock).                                        *)
(***************************************************************************)
EXTENDS Integers, Sequences, FiniteSets, TLC

\* ------------------------------------------------------------------ bounds
\* number of Module objects the threads may install in one behaviour
MaxInstalls == 3
\* longest batch handed to finish_loading_modules
MaxBatch == 2
\* the capacity the LineBuffer is created with, in bytes
Capacity == 2
\* the longest line the LineBuffer is made to hold, in bytes
MaxLineBytes == 5
\* the largest repeat count n given to a LineBuffer method
MaxCount == 2
\* the longest line given to LineBuffer::update, in bytes
MaxUpdateBytes == 3

\* ------------------------------------------------------------------ data
Threads == {"t1", "t2"}

NoHook == "none"
NoModule == 0
NoEntry == [module |-> 0, ptr |-> 0]

\* MFA(module atom, function atom, arity)
MFA(m, f, a) == <<m, f, a>>

Names == {"a", "b"}
Functions == {"f", "g", "h"}
AllMFA == {MFA(m, f, 1) : m \in Names, f \in Functions}

\* Module: the fields process_exports and the loaders read.
\* exports holds (func, arity, label); funs maps (func, arity) to an offset.
ImgA1 == [name |-> "a", imports |-> <<MFA("b", "f", 1)>>,
          exports |-> <<MFA("f", 1, 1), MFA("g", 1, 2)>>,
          funs |-> (<<"f", 1>> :> 10) @@ (<<"g", 1>> :> 20),
          on_load |-> NoHook]
ImgA2 == [name |-> "a", imports |-> <<>>,
          exports |-> <<MFA("f", 1, 1)>>,
          funs |-> (<<"f", 1>> :> 30) @@ (<<"g", 1>> :> 35),
          on_load |-> "init"]
ImgB1 == [name |-> "b", imports |-> <<MFA("a", "f", 1)>>,
          exports |-> <<MFA("h", 1, 1), MFA("f", 1, 2)>>,
          funs |-> (<<"f", 1>> :> 10) @@ (<<"h", 1>> :> 20),
          on_load |-> NoHook]
ImgBad == [name |-> "b", imports |-> <<>>,
           exports |-> <<MFA("f", 1, 1), MFA("g", 1, 2)>>,
           funs |-> (<<"f", 1>> :> 40),
           on_load |-> NoHook]
Images == {ImgA1, ImgA2, ImgB1, ImgBad}

\* what a path given to load_module holds: a decodable image, or a file
\* that cannot be read or decoded
Unreadable == [name |-> "unreadable", imports |-> <<>>, exports |-> <<>>,
               funs |-> <<>>, on_load |-> NoHook]
Files == Images \cup {Unreadable}

\* the module vectors of at most MaxBatch and at most n modules
BatchesUpTo(n) ==
  UNION {[1..k -> Images] : k \in 1..(IF n < MaxBatch THEN n ELSE MaxBatch)}

Range(seq) == {seq[i] : i \in 1..Len(seq)}

\* the data-model invariant: every export has a body in funs
Valid(img) ==
  \A i \in 1..Len(img.exports) :
     <<img.exports[i][1], img.exports[i][2]>> \in DOMAIN img.funs

\* ------------------------------------------------------------- collaborators
\* bif::is_bif: the fixed table of native overrides
Bifs == {MFA("b", "h", 1), MFA("a", "h", 1)}
is_bif(mfa) == mfa \in Bifs

\* ExportsTable::register: insert or overwrite
register(tbl, mfa, ptr) == [tbl EXCEPT ![mfa] = ptr]

\* ExportsTable::lookup: the entry of mfa, NoEntry when absent
lookup(tbl, mfa) == tbl[mfa]

\* ------------------------------------------------------------------ state
VARIABLES
  heap,       \* the Module objects allocated so far; a module's id is its index
  freed,      \* ids of the Module boxes that were dropped
  registry,   \* vm.modules: name -> id of the resident module (NoModule if none)
  exports,    \* vm.exports: MFA -> InstrPtr {module, ptr} (NoEntry if none)
  regLock,    \* holder of the vm.modules mutex, "" when free
  expLock,    \* holder of the vm.exports write lock, "" when free
  started,    \* installs the running and finished calls account for
  pc,         \* per thread: where it stands
  op,         \* per thread: the call it runs or ran last
  batch0,     \* per thread: the modules vector finish_loading_modules was given
  installed,  \* per thread: ids of the modules this call gave to the registry
  key,        \* per thread: the MFA (or module name) its call asked for
  held,       \* per thread: the InstrPtr / module handle its call holds
  result,     \* per thread: how its last call ended
  buf,        \* LineBuffer.buf: the edited line, a sequence of chars
  pos,        \* LineBuffer.pos: the cursor, a byte position
  cap,        \* buf.capacity(), in bytes
  call,       \* the LineBuffer method called last, with its arguments
  ret         \* what that call returned

lbvars == <<buf, pos, cap, call, ret>>

vmvars == <<heap, freed, registry, exports, regLock, expLock, started,
            pc, op, batch0, installed, key, held, result>>

vars == <<vmvars, lbvars>>

shared == <<heap, freed, registry, exports>>
locks == <<regLock, expLock>>

Allocated == 1..Len(heap)

\* ------------------------------------------------------- process_exports
\* The for_each of process_exports from export i on.  funs[&key] panics on a
\* key funs does not hold: the iteration stops there, with the registrations
\* made so far in place.
RECURSIVE ExportsFrom(_, _, _, _)
ExportsFrom(self, module, tbl, i) ==
  IF i > Len(self.exports) THEN [tbl |-> tbl, panicked |-> FALSE]
  ELSE LET export == self.exports[i]
           mfa == MFA(self.name, export[1], export[2])
       IN IF ~is_bif(mfa)
          THEN IF <<export[1], export[2]>> \in DOMAIN self.funs
               THEN ExportsFrom(self, module,
                      register(tbl, mfa,
                        [module |-> module,
                         ptr |-> self.funs[<<export[1], export[2]>>]]),
                      i + 1)
               ELSE [tbl |-> tbl, panicked |-> TRUE]
          ELSE ExportsFrom(self, module, tbl, i + 1)

\* process_exports without the is_bif test: every export is registered
RECURSIVE ExportsFromNoBifTest(_, _, _, _)
ExportsFromNoBifTest(self, module, tbl, i) ==
  IF i > Len(self.exports) THEN [tbl |-> tbl, panicked |-> FALSE]
  ELSE LET export == self.exports[i]
           mfa == MFA(self.name, export[1], export[2])
       IN IF <<export[1], export[2]>> \in DOMAIN self.funs
          THEN ExportsFromNoBifTest(self, module,
                 register(tbl, mfa,
                   [module |-> module,
                    ptr |-> self.funs[<<export[1], export[2]>>]]),
                 i + 1)
          ELSE [tbl |-> tbl, panicked |-> TRUE]

process_exports_no_bif_test(self, module, tbl) ==
  ExportsFromNoBifTest(self, module, tbl, 1)

\* process_exports taking the export's label (export.2) for the offset
RECURSIVE ExportsFromLabel(_, _, _, _)
ExportsFromLabel(self, module, tbl, i) ==
  IF i > Len(self.exports) THEN [tbl |-> tbl, panicked |-> FALSE]
  ELSE LET export == self.exports[i]
           mfa == MFA(self.name, export[1], export[2])
       IN IF ~is_bif(mfa)
          THEN IF <<export[1], export[2]>> \in DOMAIN self.funs
               THEN ExportsFromLabel(self, module,
                      register(tbl, mfa,
                        [module |-> module, ptr |-> export[3]]),
                      i + 1)
               ELSE [tbl |-> tbl, panicked |-> TRUE]
          ELSE ExportsFromLabel(self, module, tbl, i + 1)

process_exports_label(self, module, tbl) ==
  ExportsFromLabel(self, module, tbl, 1)

\* process_exports that insists on fresh keys: registering an MFA the table
\* already holds panics
RECURSIVE ExportsFromUnique(_, _, _, _)
ExportsFromUnique(self, module, tbl, i) ==
  IF i > Len(self.exports) THEN [tbl |-> tbl, panicked |-> FALSE]
  ELSE LET export == self.exports[i]
           mfa == MFA(self.name, export[1], export[2])
       IN IF ~is_bif(mfa)
          THEN IF <<export[1], export[2]>> \in DOMAIN self.funs
                  /\ lookup(tbl, mfa) = NoEntry
               THEN ExportsFromUnique(self, module,
                      register(tbl, mfa,
                        [module |-> module,
                         ptr |-> self.funs[<<export[1], export[2]>>]]),
                      i + 1)
               ELSE [tbl |-> tbl, panicked |-> TRUE]
          ELSE ExportsFromUnique(self, module, tbl, i + 1)

process_exports_unique(self, module, tbl) ==
  ExportsFromUnique(self, module, tbl, 1)

\* process_exports that starts from an emptied table
process_exports_clear(self, module, tbl) ==
  ExportsFrom(self, module, [k \in AllMFA |-> NoEntry], 1)

process_exports(self, module, tbl) == ExportsFrom(self, module, tbl, 1)

\* ------------------------------------------------------------- registry
\* Registry::add_module(name, module): the box becomes the resident module
\* of name; the box it displaces is dropped.
add_module(name, module) ==
  /\ heap' = Append(heap, module)
  /\ registry' = [registry EXCEPT ![name] = Len(heap) + 1]
  /\ freed' = IF registry[name] # NoModule
              THEN freed \cup {registry[name]} ELSE freed

\* Registry::parse_module(path): read and decode the file, validate the
\* image (exports within funs) and make it resident; no effect on failure.
parse_ok(file) == file \in Images /\ Valid(file)

\* ------------------------------------------------------------------ Init
Init ==
  /\ heap = <<>>
  /\ freed = {}
  /\ registry = [n \in Names |-> NoModule]
  /\ exports = [k \in AllMFA |-> NoEntry]
  /\ regLock = ""
  /\ expLock = ""
  /\ started = 0
  /\ pc = [t \in Threads |-> "idle"]
  /\ op = [t \in Threads |-> "none"]
  /\ batch0 = [t \in Threads |-> <<>>]
  /\ installed = [t \in Threads |-> <<>>]
  /\ key = [t \in Threads |-> <<>>]
  /\ held = [t \in Threads |-> NoEntry]
  /\ result = [t \in Threads |-> "none"]
  /\ buf = <<>>
  /\ pos = 0
  /\ cap = Capacity
  /\ call = [op |-> "with_capacity", ch |-> "", n |-> Capacity]
  /\ ret = <<"unit">>

\* a thread enters a call: its locals start afresh
Enter(t, o, at, b, k, h, r) ==
  /\ pc[t] = "idle"
  /\ op' = [op EXCEPT ![t] = o]
  /\ pc' = [pc EXCEPT ![t] = at]
  /\ batch0' = [batch0 EXCEPT ![t] = b]
  /\ installed' = [installed EXCEPT ![t] = <<>>]
  /\ key' = [key EXCEPT ![t] = k]
  /\ held' = [held EXCEPT ![t] = h]
  /\ result' = [result EXCEPT ![t] = r]

\* ----------------------------------------------------------- load_module
CallLoadModule(t, file) ==
  /\ started < MaxInstalls
  /\ started' = started + 1
  /\ Enter(t, "load_module", "lm_registry", <<file>>, <<>>, NoEntry, "running")
  /\ UNCHANGED <<shared, locks>>
  /\ UNCHANGED lbvars

\* load_module taking the exports write lock where it should take the
\* registry mutex
LmLockRegistrySwapped(t) ==
  /\ pc[t] = "lm_registry"
  /\ expLock = ""
  /\ expLock' = t
  /\ pc' = [pc EXCEPT ![t] = "lm_exports"]
  /\ UNCHANGED <<shared, regLock, started, op, batch0, installed, key, held,
                 result>>
  /\ UNCHANGED lbvars

\* let mut registry = vm.modules.lock();
LmLockRegistry(t) ==
  /\ pc[t] = "lm_registry"
  /\ regLock = ""
  /\ regLock' = t
  /\ pc' = [pc EXCEPT ![t] = "lm_exports"]
  /\ UNCHANGED <<shared, expLock, started, op, batch0, installed, key, held,
                 result>>
  /\ UNCHANGED lbvars

\* let mut exports = vm.exports.write();
LmLockExports(t) ==
  /\ pc[t] = "lm_exports"
  /\ expLock = ""
  /\ expLock' = t
  /\ pc' = [pc EXCEPT ![t] = "lm_parse"]
  /\ UNCHANGED <<shared, regLock, started, op, batch0, installed, key, held,
                 result>>
  /\ UNCHANGED lbvars

\* LmParse that makes a decoded module resident before it finds the image
\* wanting and returns the error
LmParseInstallFirst(t) ==
  /\ pc[t] = "lm_parse"
  /\ LET file == batch0[t][1]
         id == Len(heap) + 1
     IN IF file \in Images
        THEN LET r == IF Valid(file) THEN process_exports(file, id, exports)
                      ELSE [tbl |-> exports, panicked |-> FALSE]
             IN /\ add_module(file.name, file)
                /\ exports' = r.tbl
                /\ installed' = [installed EXCEPT ![t] = <<id>>]
                /\ result' = [result EXCEPT ![t] =
                                IF Valid(file) THEN "ok" ELSE "error"]
        ELSE /\ result' = [result EXCEPT ![t] = "error"]
             /\ UNCHANGED <<shared, installed>>
  /\ regLock' = ""
  /\ expLock' = ""
  /\ pc' = [pc EXCEPT ![t] = "idle"]
  /\ batch0' = [batch0 EXCEPT ![t] = <<>>]
  /\ UNCHANGED <<started, op, key, held>>
  /\ UNCHANGED lbvars

\* registry.parse_module(path).map(|module| { module.process_exports(..) })
\* and the drop of both guards on return (or on unwinding)
LmParse(t) ==
  /\ pc[t] = "lm_parse"
  /\ LET file == batch0[t][1]
         id == Len(heap) + 1
     IN IF parse_ok(file)
        THEN LET r == process_exports(file, id, exports)
             IN /\ add_module(file.name, file)
                /\ exports' = r.tbl
                /\ installed' = [installed EXCEPT ![t] = <<id>>]
                /\ result' = [result EXCEPT ![t] =
                                IF r.panicked THEN "panic" ELSE "ok"]
        ELSE /\ result' = [result EXCEPT ![t] = "error"]
             /\ UNCHANGED <<shared, installed>>
  /\ regLock' = ""
  /\ expLock' = ""
  /\ pc' = [pc EXCEPT ![t] = "idle"]
  /\ batch0' = [batch0 EXCEPT ![t] = <<>>]
  /\ UNCHANGED <<started, op, key, held>>
  /\ UNCHANGED lbvars

\* ------------------------------------------------ finish_loading_modules
CallFinishLoadingModules(t, modules) ==
  /\ started + Len(modules) <= MaxInstalls
  /\ started' = started + Len(modules)
  /\ Enter(t, "finish_loading_modules", "fm_registry", modules, <<>>,
           NoEntry, "running")
  /\ UNCHANGED <<shared, locks>>
  /\ UNCHANGED lbvars

\* for module in modules { let mut registry = vm.modules.lock();
FmLockRegistry(t) ==
  /\ pc[t] = "fm_registry"
  /\ regLock = ""
  /\ regLock' = t
  /\ pc' = [pc EXCEPT ![t] = "fm_add"]
  /\ UNCHANGED <<shared, expLock, started, op, batch0, installed, key, held,
                 result>>
  /\ UNCHANGED lbvars

\* let module = registry.add_module(module.name, module);
FmAddModule(t) ==
  /\ pc[t] = "fm_add"
  /\ LET module == batch0[t][Len(installed[t]) + 1]
     IN /\ add_module(module.name, module)
        /\ installed' = [installed EXCEPT ![t] = Append(@, Len(heap) + 1)]
  /\ pc' = [pc EXCEPT ![t] = "fm_exports"]
  /\ UNCHANGED <<exports, locks, started, op, batch0, key, held, result>>
  /\ UNCHANGED lbvars

\* let mut exports = vm.exports.write();
FmLockExports(t) ==
  /\ pc[t] = "fm_exports"
  /\ expLock = ""
  /\ expLock' = t
  /\ pc' = [pc EXCEPT ![t] = "fm_process"]
  /\ UNCHANGED <<shared, regLock, started, op, batch0, installed, key, held,
                 result>>
  /\ UNCHANGED lbvars

\* FmProcessExports that publishes the exports of the first module of the
\* batch in every iteration
FmProcessExportsFirst(t) ==
  /\ pc[t] = "fm_process"
  /\ LET id == installed[t][1]
         r == process_exports(heap[id], id, exports)
         last == Len(installed[t]) = Len(batch0[t])
     IN /\ exports' = r.tbl
        /\ pc' = [pc EXCEPT ![t] =
                    IF r.panicked \/ last THEN "idle" ELSE "fm_registry"]
        /\ result' = [result EXCEPT ![t] =
                        IF r.panicked THEN "panic"
                        ELSE IF last THEN "ok" ELSE @]
  /\ regLock' = ""
  /\ expLock' = ""
  /\ UNCHANGED <<heap, freed, registry, started, op, batch0, installed, key,
                 held>>
  /\ UNCHANGED lbvars

\* module.process_exports(&mut *exports); } -- both guards drop at the end
\* of the iteration, or while a panic unwinds
FmProcessExports(t) ==
  /\ pc[t] = "fm_process"
  /\ LET id == installed[t][Len(installed[t])]
         r == process_exports(heap[id], id, exports)
         last == Len(installed[t]) = Len(batch0[t])
     IN /\ exports' = r.tbl
        /\ pc' = [pc EXCEPT ![t] =
                    IF r.panicked \/ last THEN "idle" ELSE "fm_registry"]
        /\ result' = [result EXCEPT ![t] =
                        IF r.panicked THEN "panic"
                        ELSE IF last THEN "ok" ELSE @]
  /\ regLock' = ""
  /\ expLock' = ""
  /\ UNCHANGED <<heap, freed, registry, started, op, batch0, installed, key,
                 held>>
  /\ UNCHANGED lbvars

\* ------------------------------------------------------ resolve / lookup
\* vm.exports.read().lookup(&mfa): the caller copies the InstrPtr out and
\* runs the call with it
Resolve(t, mfa) ==
  /\ expLock = ""
  /\ LET ptr == lookup(exports, mfa)
     IN IF ptr = NoEntry
        THEN Enter(t, "resolve", "idle", <<>>, <<>>, NoEntry, "undef")
        ELSE Enter(t, "resolve", "in_call", <<>>, mfa, ptr, "running")
  /\ UNCHANGED <<shared, locks, started>>
  /\ UNCHANGED lbvars

\* the call runs to its end through the raw module pointer it holds; through
\* a pointer to a dropped box it may as well fault
FinishCall(t) ==
  /\ pc[t] = "in_call"
  /\ \E r \in IF held[t].module \in freed THEN {"ok", "fault"} ELSE {"ok"} :
        result' = [result EXCEPT ![t] = r]
  /\ pc' = [pc EXCEPT ![t] = "idle"]
  /\ held' = [held EXCEPT ![t] = NoEntry]
  /\ key' = [key EXCEPT ![t] = <<>>]
  /\ UNCHANGED <<shared, locks, started, op, batch0, installed>>
  /\ UNCHANGED lbvars

\* vm.modules.lock().lookup(name)
LookupModule(t, name) ==
  /\ regLock = ""
  /\ Enter(t, "lookup", "idle", <<>>, <<>>,
           [module |-> registry[name], ptr |-> 0],
           IF registry[name] = NoModule THEN "none" ELSE "ok")
  /\ UNCHANGED <<shared, locks, started>>
  /\ UNCHANGED lbvars

Next ==
  \E t \in Threads :
     \/ \E file \in Files : CallLoadModule(t, file)
     \/ LmLockRegistry(t)
     \/ LmLockExports(t)
     \/ LmParse(t)
     \/ \E modules \in BatchesUpTo(MaxInstalls - started) :
           CallFinishLoadingModules(t, modules)
     \/ FmLockRegistry(t)
     \/ FmAddModule(t)
     \/ FmLockExports(t)
     \/ FmProcessExports(t)
     \/ \E mfa \in AllMFA : Resolve(t, mfa)
     \/ FinishCall(t)
     \/ \E name \in Names : LookupModule(t, name)

Spec == Init /\ [][Next]_vars

\* the steps of a thread inside a call: taking a lock, and the rest
Acquire(t) ==
  \/ LmLockRegistry(t) \/ LmLockExports(t)
  \/ FmLockRegistry(t) \/ FmLockExports(t)
Work(t) ==
  \/ LmParse(t) \/ FmAddModule(t) \/ FmProcessExports(t) \/ FinishCall(t)

\* the calls on fewer inputs: a valid module, one that makes process_exports
\* panic, an unreadable file; one MFA and one name to ask for
LiveImages == {ImgA1, ImgBad}
LiveNext ==
  \E t \in Threads :
     \/ \E file \in {ImgA1, Unreadable} : CallLoadModule(t, file)
     \/ LmLockRegistry(t)
     \/ LmLockExports(t)
     \/ LmParse(t)
     \/ \E modules \in BatchesUpTo(MaxInstalls - started) :
           /\ Range(modules) \subseteq LiveImages
           /\ CallFinishLoadingModules(t, modules)
     \/ FmLockRegistry(t)
     \/ FmAddModule(t)
     \/ FmLockExports(t)
     \/ FmProcessExports(t)
     \/ Resolve(t, MFA("a", "f", 1))
     \/ FinishCall(t)
     \/ LookupModule(t, "a")

\* every thread is scheduled, and a thread that waits for a lock gets it
\* when the lock keeps coming free
FairSpec ==
  Init /\ [][LiveNext]_vars
       /\ \A t \in Threads : WF_vars(Work(t)) /\ SF_vars(Acquire(t))

\* ------------------------------------------------------------ LineBuffer
\* The line editor of the tty port (enigma/src/port/renderer.rs): a String
\* and a cursor that is a byte position in it.

\* the characters typed: U+0067 (g, one byte), U+03B1 (two bytes) and the
\* combining diaeresis U+0308 (two bytes, Grapheme_Extend)
Chars == {"g", "U+03B1", "U+0308"}
len_utf8(ch) == IF ch = "g" THEN 1 ELSE 2
Extend(ch) == ch = "U+0308"

Counts == 0..MaxCount

None == <<"None">>
Some(x) == <<"Some", x>>

\* str::len: the length of a string in bytes
RECURSIVE len(_)
len(s) == IF s = <<>> THEN 0 ELSE len_utf8(Head(s)) + len(Tail(s))

\* the number of chars of s before byte position i (i on a char boundary)
CharIndex(s, i) == CHOOSE k \in 0..Len(s) : len(SubSeq(s, 1, k)) = i

\* s[from..to], by byte positions
Slice(s, from, to) == SubSeq(s, CharIndex(s, from) + 1, CharIndex(s, to))

\* s.grapheme_indices(true): the extended grapheme clusters of s in order,
\* each with the byte offset of its start.  A cluster is a char and the
\* Extend chars that follow it; Extend chars that start s are a cluster.
RECURSIVE grapheme_indices_from(_, _)
grapheme_indices_from(s, k) ==
  IF k > Len(s) THEN <<>>
  ELSE LET e == CHOOSE j \in k..Len(s) :
                  /\ \A x \in (k + 1)..j : Extend(s[x])
                  /\ j = Len(s) \/ ~Extend(s[j + 1])
       IN <<[i |-> len(SubSeq(s, 1, k - 1)), s |-> SubSeq(s, k, e)]>>
            \o grapheme_indices_from(s, e + 1)

grapheme_indices(s) == grapheme_indices_from(s, 1)

\* Iterator::take, Iterator::rev, Iterator::last, Iterator::nth
take(q, n) == SubSeq(q, 1, IF n < Len(q) THEN n ELSE Len(q))
rev(q) == [x \in 1..Len(q) |-> q[Len(q) + 1 - x]]
last(q) == IF q = <<>> THEN None ELSE Some(q[Len(q)])
nth(q, n) == IF n < Len(q) THEN Some(q[n + 1]) ELSE None

\* the position n graphemes to the right, taking nth(n) for take(n).last()
next_pos_nth(n) ==
  IF pos = len(buf) THEN None
  ELSE LET g == nth(grapheme_indices(Slice(buf, pos, len(buf))), n)
       IN IF g = None THEN None ELSE Some(g[2].i + pos + len(g[2].s))

\* LineBuffer::next_pos: the position just after the n-th grapheme to the
\* right of the cursor, or after the last one when there are fewer
next_pos(n) ==
  IF pos = len(buf) THEN None
  ELSE LET g == last(take(grapheme_indices(Slice(buf, pos, len(buf))), n))
       IN IF g = None THEN None ELSE Some(g[2].i + pos + len(g[2].s))

\* LineBuffer::prev_pos: the position of the start of the n-th grapheme to
\* the left of the cursor, or of the first one when there are fewer
prev_pos(n) ==
  IF pos = 0 THEN None
  ELSE LET g == last(take(rev(grapheme_indices(Slice(buf, 0, pos))), n))
       IN IF g = None THEN None ELSE Some(g[2].i)

\* String::drain(range): what is left of s
drain(s, from, to) == Slice(s, 0, from) \o Slice(s, to, len(s))

\* the call made last returned: a call that panicked left ret empty, and
\* nothing is called on the LineBuffer after it
returned == Len(ret) > 0

\* the capacity of the String once it holds need bytes: it grows by
\* doubling when need bytes do not fit
reserve(need) ==
  IF need <= cap THEN cap ELSE IF 2 * cap < need THEN need ELSE 2 * cap

\* LineBuffer::insert(ch, n).  buf.insert (n = 1) and insert_str, which
\* pushes at the end of the line, put the same text at the cursor.
insert(ch, n) ==
  LET shift == len_utf8(ch) * n
      push == pos = len(buf)
      text == [x \in 1..n |-> ch]
  IN /\ returned
     /\ len(buf) + shift <= MaxLineBytes
     /\ buf' = Slice(buf, 0, pos) \o text \o Slice(buf, pos, len(buf))
     /\ pos' = pos + shift
     /\ cap' = reserve(len(buf) + shift)
     /\ call' = [op |-> "insert", ch |-> ch, n |-> n]
     /\ ret' = Some(push)
     /\ UNCHANGED vmvars

\* LineBuffer::move_backward(n)
move_backward(n) ==
  /\ returned
  /\ pos' = IF prev_pos(n) = None THEN pos ELSE prev_pos(n)[2]
  /\ call' = [op |-> "move_backward", ch |-> "", n |-> n]
  /\ ret' = <<prev_pos(n) # None>>
  /\ UNCHANGED <<buf, cap, vmvars>>

\* LineBuffer::move_forward(n)
move_forward(n) ==
  /\ returned
  /\ pos' = IF next_pos(n) = None THEN pos ELSE next_pos(n)[2]
  /\ call' = [op |-> "move_forward", ch |-> "", n |-> n]
  /\ ret' = <<next_pos(n) # None>>
  /\ UNCHANGED <<buf, cap, vmvars>>

\* LineBuffer::move_home
move_home ==
  /\ returned
  /\ pos' = 0
  /\ call' = [op |-> "move_home", ch |-> "", n |-> 0]
  /\ ret' = <<pos > 0>>
  /\ UNCHANGED <<buf, cap, vmvars>>

\* LineBuffer::move_end
move_end ==
  /\ returned
  /\ pos' = len(buf)
  /\ call' = [op |-> "move_end", ch |-> "", n |-> 0]
  /\ ret' = <<pos # len(buf)>>
  /\ UNCHANGED <<buf, cap, vmvars>>

\* LineBuffer::delete(n)
delete(n) ==
  /\ returned
  /\ IF next_pos(n) = None
       THEN /\ ret' = None
            /\ buf' = buf
       ELSE /\ ret' = Some(Slice(buf, pos, next_pos(n)[2]))
            /\ buf' = drain(buf, pos, next_pos(n)[2])
  /\ call' = [op |-> "delete", ch |-> "", n |-> n]
  /\ UNCHANGED <<pos, cap, vmvars>>

\* LineBuffer::backspace(n)
backspace(n) ==
  /\ returned
  /\ IF prev_pos(n) = None
       THEN /\ ret' = <<FALSE>>
            /\ UNCHANGED <<buf, pos>>
       ELSE /\ ret' = <<TRUE>>
            /\ buf' = drain(buf, prev_pos(n)[2], pos)
            /\ pos' = prev_pos(n)[2]
  /\ call' = [op |-> "backspace", ch |-> "", n |-> n]
  /\ UNCHANGED <<cap, vmvars>>

\* LineBuffer::kill_line
kill_line ==
  /\ returned
  /\ IF buf # <<>> /\ pos < len(buf)
       THEN /\ buf' = drain(buf, pos, len(buf))
            /\ ret' = <<TRUE>>
       ELSE /\ buf' = buf
            /\ ret' = <<FALSE>>
  /\ call' = [op |-> "kill_line", ch |-> "", n |-> 0]
  /\ UNCHANGED <<pos, cap, vmvars>>

\* LineBuffer::discard_line
discard_line ==
  /\ returned
  /\ IF pos > 0 /\ buf # <<>>
       THEN /\ buf' = drain(buf, 0, pos)
            /\ pos' = 0
            /\ ret' = <<TRUE>>
       ELSE /\ UNCHANGED <<buf, pos>>
            /\ ret' = <<FALSE>>
  /\ call' = [op |-> "discard_line", ch |-> "", n |-> 0]
  /\ UNCHANGED <<cap, vmvars>>

\* LineBuffer::clear
clear ==
  /\ returned
  /\ buf' = drain(buf, 0, len(buf))
  /\ pos' = 0
  /\ call' = [op |-> "clear", ch |-> "", n |-> 0]
  /\ ret' = <<"unit">>
  /\ UNCHANGED <<cap, vmvars>>

\* s is a string and i a byte position at the start of one of its chars, or
\* at its end
is_char_boundary(s, i) == \E k \in 0..Len(s) : len(SubSeq(s, 1, k)) = i

\* the lines given to update: every string of at most MaxUpdateBytes bytes
Lines ==
  {s \in UNION {[1..k -> Chars] : k \in 0..MaxUpdateBytes} :
     len(s) <= MaxUpdateBytes}

\* LineBuffer::update(line, p), p a position in line.  A line longer than
\* the capacity is cut at the capacity; &buf[..max] panics when that is
\* inside a char, the old line already drained.
update(line, p) ==
  /\ returned
  /\ p <= len(line) /\ is_char_boundary(line, p)
  /\ call' = [op |-> "update", ch |-> "", n |-> p]
  /\ IF len(line) > cap
       THEN IF is_char_boundary(line, cap)
              THEN /\ buf' = Slice(line, 0, cap)
                   /\ pos' = IF p > cap THEN cap ELSE p
                   /\ ret' = <<"unit">>
              ELSE /\ buf' = drain(buf, 0, len(buf))
                   /\ pos' = pos
                   /\ ret' = <<>>
       ELSE /\ buf' = line
            /\ pos' = p
            /\ ret' = <<"unit">>
  /\ UNCHANGED <<cap, vmvars>>

\* LineBuffer::delete_range(start..end), a range of the line
delete_range(start, end) ==
  /\ returned
  /\ start <= end /\ end <= len(buf)
  /\ is_char_boundary(buf, start) /\ is_char_boundary(buf, end)
  /\ pos' = start
  /\ buf' = drain(buf, start, end)
  /\ call' = [op |-> "delete_range", ch |-> "", n |-> start]
  /\ ret' = <<"unit">>
  /\ UNCHANGED <<cap, vmvars>>

\* the calls made on one LineBuffer, one after the other
LineNext ==
  \/ \E ch \in Chars, n \in Counts : insert(ch, n)
  \/ \E n \in Counts : move_backward(n)
  \/ \E n \in Counts : move_forward(n)
  \/ move_home
  \/ move_end
  \/ \E n \in Counts : delete(n)
  \/ \E n \in Counts : backspace(n)
  \/ kill_line
  \/ discard_line
  \/ clear
  \/ \E line \in Lines, p \in 0..MaxUpdateBytes : update(line, p)
  \/ \E start \in 0..MaxLineBytes, end \in 0..MaxLineBytes :
       delete_range(start, end)

LineSpec == Init /\ [][LineNext]_vars


\* ================================================================ claims
\* the entry point process_exports forms for export (f, a) of module id
EntryOf(id, f, a) == [module |-> id, ptr |-> heap[id].funs[<<f, a>>]]

\* the exports of an image that no native override shadows, as MFAs
Published(img) ==
  {MFA(img.name, img.exports[i][1], img.exports[i][2]) :
     i \in 1..Len(img.exports)} \ Bifs

\* ids of the allocated modules built from image img
IdsOf(img) == {id \in Allocated : heap[id] = img}

\* C1: for every MFA with a native override, the Exports Table holds no
\* bytecode entry point and no call runs on one that resolve returned,
\* whatever was installed, in whatever order, however often.
C1_OverrideInvariant ==
  /\ \A mfa \in AllMFA : is_bif(mfa) => lookup(exports, mfa) = NoEntry
  /\ \A t \in Threads : pc[t] = "in_call" => ~is_bif(key[t])

\* a module that exports an overridden function was installed twice, its
\* other export is published and a call resolved it
C1_Witness ==
  /\ Cardinality(IdsOf(ImgB1)) >= 2
  /\ regLock = ""
  /\ registry["b"] \in IdsOf(ImgB1)
  /\ lookup(exports, MFA("b", "f", 1)).module = registry["b"]
  /\ \E t \in Threads : pc[t] = "in_call" /\ key[t] = MFA("b", "f", 1)

\* C2: while a call holds an entry point, no step frees the module the
\* entry point refers to.
C2_HeldEntryStaysAlive ==
  [][\A t \in Threads :
        (pc[t] = "in_call" /\ pc'[t] = "in_call"
           /\ held[t].module \notin freed)
        => held[t].module \notin freed']_vars

\* C3: once a valid module is resident under a name and no install is under
\* way, every Exports Table entry of that name belongs to the resident
\* module, none to a superseded one.
C3_SupersededUnreachable ==
  \A k \in AllMFA :
     (/\ regLock = ""
      /\ lookup(exports, k) # NoEntry
      /\ registry[k[1]] # NoModule
      /\ Valid(heap[registry[k[1]]]))
     => lookup(exports, k).module = registry[k[1]]

\* an entry point is whole: module and offset come from one module version
\* that bears the key's module name and holds the key's function
Whole(k, e) ==
  /\ e.module \in Allocated
  /\ heap[e.module].name = k[1]
  /\ <<k[2], k[3]>> \in DOMAIN heap[e.module].funs
  /\ e = EntryOf(e.module, k[2], k[3])

\* C4: every Exports Table entry and every entry point a resolve returned is
\* whole (never one version's module with another's offset), and whenever no
\* install is under way every non-overridden export of a validly installed
\* resident module resolves to that module's own entry point.
C4_HotReload ==
  /\ \A k \in AllMFA : lookup(exports, k) # NoEntry => Whole(k, lookup(exports, k))
  /\ \A t \in Threads : pc[t] = "in_call" => Whole(key[t], held[t])
  /\ regLock = "" =>
       \A n \in Names :
          registry[n] # NoModule /\ Valid(heap[registry[n]]) =>
             \A k \in Published(heap[registry[n]]) :
                lookup(exports, k) = EntryOf(registry[n], k[2], k[3])

\* a v2 replaced v1, is published, and a call still holds v1's entry point
C4_Witness ==
  /\ regLock = ""
  /\ registry["a"] \in IdsOf(ImgA2)
  /\ lookup(exports, MFA("a", "f", 1)) = [module |-> registry["a"], ptr |-> 30]
  /\ \E t \in Threads :
        /\ pc[t] = "in_call"
        /\ key[t] = MFA("a", "f", 1)
        /\ held[t].module \in IdsOf(ImgA1) \cap freed
        /\ held[t].ptr = 10

\* C5: no install panics, and a module whose exports are not all in funs is
\* neither resident nor published once its install is over.
C5_InvalidImageFailsCleanly ==
  /\ \A t \in Threads : result[t] # "panic"
  /\ regLock = "" =>
       \A id \in Allocated :
          ~Valid(heap[id]) =>
             /\ registry[heap[id].name] # id
             /\ \A k \in AllMFA : lookup(exports, k).module # id

\* C6: every module handle lookup returned is fully linked.
C6_LookupFullyLinked ==
  \A t \in Threads :
     op[t] = "lookup" /\ held[t].module # NoModule
     => Valid(heap[held[t].module])

\* C7: when a finish_loading_modules call on valid modules has registered an
\* export of one of its modules, it has installed every module of its batch.
C7_TwoPhaseBatch ==
  \A t \in Threads :
     (/\ op[t] = "finish_loading_modules"
      /\ \A i \in 1..Len(batch0[t]) : Valid(batch0[t][i])
      /\ \E k \in AllMFA : lookup(exports, k).module \in Range(installed[t]))
     => Len(installed[t]) = Len(batch0[t])

\* C8: after finish_loading_modules has returned for a batch of valid
\* modules, it has installed them all in list order, and every one of them
\* that no later install has superseded is resident, its non-overridden
\* exports resolve to its own entry points, and so does every import of a
\* batch module that names such an export.
C8_BatchForwardReference ==
  \A t \in Threads :
     (/\ op[t] = "finish_loading_modules"
      /\ pc[t] = "idle"
      /\ \A i \in 1..Len(batch0[t]) : Valid(batch0[t][i]))
     => /\ result[t] = "ok"
        /\ Len(installed[t]) = Len(batch0[t])
        /\ \A i \in 1..Len(batch0[t]) :
              LET id == installed[t][i]
              IN /\ heap[id] = batch0[t][i]
                 /\ id \notin freed =>
                      /\ registry[heap[id].name] = id
                      /\ \A k \in Published(heap[id]) :
                            lookup(exports, k) = EntryOf(id, k[2], k[3])
                      /\ \A j \in 1..Len(batch0[t]) :
                            \A k \in Range(batch0[t][j].imports) :
                               k \in Published(heap[id]) =>
                                  lookup(exports, k).module = id

\* a batch whose first module imports from its second has returned, and so
\* has one in the opposite order
C8_Witness ==
  \E t \in Threads :
     /\ op[t] = "finish_loading_modules"
     /\ pc[t] = "idle"
     /\ batch0[t] = <<ImgA1, ImgB1>>
     /\ freed = {}
     /\ lookup(exports, MFA("b", "f", 1)).module = installed[t][2]
     /\ lookup(exports, MFA("a", "f", 1)).module = installed[t][1]

\* C9: when finish_loading_modules is done, every valid module of its batch
\* has been installed, whatever became of the other modules of the batch.
C9_PartialBatchFailure ==
  \A t \in Threads :
     op[t] = "finish_loading_modules" /\ pc[t] = "idle"
     => \A i \in 1..Len(batch0[t]) :
           Valid(batch0[t][i]) =>
              /\ i <= Len(installed[t])
              /\ installed[t][i] \notin freed =>
                   \A k \in Published(batch0[t][i]) :
                      lookup(exports, k).module = installed[t][i]

\* C10: no export of a module whose on_load is set is in the Exports Table:
\* neither load_module nor finish_loading_modules runs the hook, so none has
\* reported success.
C10_OnLoadGating ==
  \A k \in AllMFA :
     lookup(exports, k) # NoEntry
     => heap[lookup(exports, k).module].on_load = NoHook

\* C11: whoever holds the exports write lock holds the registry mutex (it
\* was taken first), nobody waits for the registry mutex with the exports
\* lock in hand, and every call that has begun comes to its end.
C11_LockOrderNoDeadlock ==
  /\ [](\A t \in Threads : expLock = t => regLock = t)
  /\ [](\A t \in Threads :
          pc[t] \in {"lm_registry", "fm_registry"} => expLock # t)
  /\ \A t \in Threads : [](pc[t] # "idle" => <>(pc[t] = "idle"))

\* one thread holds both locks inside load_module while the other waits for
\* the registry mutex inside finish_loading_modules
C11_Witness ==
  \E t, u \in Threads :
     /\ pc[t] = "lm_parse" /\ regLock = t /\ expLock = t
     /\ pc[u] = "fm_registry" /\ installed[u] # <<>>

\* C12: no thread holds the exports write lock at the point where its next
\* step reads and decodes a module file.
C12_NoWriteLockWhileDecoding ==
  \A t \in Threads : pc[t] = "lm_parse" => expLock # t

\* C13: every entry resolve can return is (a module that exports the MFA
\* without override, the offset its funs holds for it), so an MFA that no
\* installed module exports resolves to nothing; and after a load_module that
\* returned Ok, while its module is resident, each of its non-overridden
\* exports resolves to (that module, its funs offset).
C13_ResolveExact ==
  /\ \A k \in AllMFA :
        lookup(exports, k) # NoEntry =>
           \E id \in Allocated :
              /\ k \in Published(heap[id])
              /\ <<k[2], k[3]>> \in DOMAIN heap[id].funs
              /\ lookup(exports, k) = EntryOf(id, k[2], k[3])
  /\ \A t \in Threads :
        (op[t] = "load_module" /\ pc[t] = "idle" /\ result[t] = "ok"
           /\ installed[t][1] \notin freed)
        => \A k \in Published(heap[installed[t][1]]) :
              lookup(exports, k) = EntryOf(installed[t][1], k[2], k[3])
  /\ \A t \in Threads :
        pc[t] = "in_call" =>
           /\ key[t] \in Published(heap[held[t].module])
           /\ held[t].ptr = heap[held[t].module].funs[<<key[t][2], key[t][3]>>]

\* the module exporting f at 10 and g at 20 was loaded; both resolve to it
\* at these offsets, and a resolve of an MFA nobody exports came back empty
C13_Witness ==
  \E t, u \in Threads :
     /\ op[t] = "load_module" /\ pc[t] = "idle" /\ result[t] = "ok"
     /\ heap[installed[t][1]] = ImgA1
     /\ lookup(exports, MFA("a", "f", 1)) = [module |-> installed[t][1], ptr |-> 10]
     /\ lookup(exports, MFA("a", "g", 1)) = [module |-> installed[t][1], ptr |-> 20]
     /\ lookup(exports, MFA("b", "g", 1)) = NoEntry
     /\ op[u] = "resolve" /\ result[u] = "undef"

\* C14: a load_module of a file that cannot be read or decoded returns the
\* error; the step that returns an error leaves the Registry, the modules
\* and the Exports Table as they were and both locks free.
C14_FailedLoadIsLocal ==
  [][\A t \in Threads :
        /\ (pc[t] = "lm_parse" /\ pc'[t] # "lm_parse"
              /\ batch0[t][1] \notin Images)
           => result'[t] = "error"
        /\ (pc[t] = "lm_parse" /\ result'[t] = "error")
           => /\ registry' = registry /\ exports' = exports
              /\ heap' = heap /\ freed' = freed
              /\ regLock' = "" /\ expLock' = ""
              /\ pc'[t] = "idle"]_vars

\* a load_module has failed while a module was resident and published; the
\* locks are free and the other thread runs a call it resolved
C14_Witness ==
  \E t, u \in Threads :
     /\ op[t] = "load_module" /\ pc[t] = "idle" /\ result[t] = "error"
     /\ regLock = "" /\ expLock = ""
     /\ registry["b"] # NoModule
     /\ lookup(exports, MFA("b", "f", 1)).module = registry["b"]
     /\ pc[u] = "in_call"

\* the module installed last before id under the same name (NoModule if none)
PrevOf(id) ==
  LET before == {j \in 1..(id - 1) : heap[j].name = heap[id].name}
  IN IF before = {} THEN NoModule
     ELSE CHOOSE j \in before : \A i \in before : i <= j

\* the same MFAs resolve, at the same offsets, after the step as before it
SameOffsets ==
  \A k \in AllMFA :
     /\ (lookup(exports', k) = NoEntry) <=> (lookup(exports, k) = NoEntry)
     /\ lookup(exports', k).ptr = lookup(exports, k).ptr

\* C15: when the image installed is the one installed last under that name,
\* the export registration of the second install leaves the set of
\* resolvable MFAs and their offsets as the first left them, and a valid
\* image registers again without failing, its exports now naming the new
\* module.
C15_ReloadIdempotent ==
  [][\A t \in Threads :
        /\ (/\ pc[t] = "lm_parse" /\ pc'[t] = "idle"
            /\ batch0[t][1] \in Images /\ Valid(batch0[t][1])
            /\ registry[batch0[t][1].name] # NoModule
            /\ heap[registry[batch0[t][1].name]] = batch0[t][1])
           => /\ SameOffsets
              /\ result'[t] = "ok"
              /\ \A k \in Published(batch0[t][1]) :
                    lookup(exports', k).module = Len(heap')
        /\ (/\ pc[t] = "fm_process" /\ pc'[t] # "fm_process"
            /\ PrevOf(installed[t][Len(installed[t])]) # NoModule
            /\ heap[PrevOf(installed[t][Len(installed[t])])]
                 = heap[installed[t][Len(installed[t])]])
           => /\ SameOffsets
              /\ Valid(heap[installed[t][Len(installed[t])]]) =>
                   /\ result'[t] # "panic"
                   /\ \A k \in Published(heap[installed[t][Len(installed[t])]]) :
                         lookup(exports', k).module
                            = installed[t][Len(installed[t])]]_vars

\* the same image was installed twice in a row under its name and the second
\* install is published
C15_Witness ==
  \E id \in Allocated :
     /\ PrevOf(id) # NoModule
     /\ heap[PrevOf(id)] = heap[id]
     /\ heap[id] = ImgA1
     /\ regLock = ""
     /\ registry["a"] = id
     /\ lookup(exports, MFA("a", "g", 1)) = [module |-> id, ptr |-> 20]

\* C18: whenever the registry mutex is free, every export of every resident
\* module that no native override shadows has a body in funs and is mapped
\* by the Exports Table to (the resident module, that offset).
C18_RegistryExportsAgree ==
  regLock = "" =>
    \A n \in Names :
       registry[n] # NoModule =>
          \A i \in 1..Len(heap[registry[n]].exports) :
             LET e == heap[registry[n]].exports[i]
                 k == MFA(n, e[1], e[2])
             IN ~is_bif(k) =>
                  /\ <<e[1], e[2]>> \in DOMAIN heap[registry[n]].funs
                  /\ lookup(exports, k) = EntryOf(registry[n], e[1], e[2])

\* C19: whenever the exports write lock is free, the Exports Table names the
\* resident module of a name for none or for all of that module's
\* non-overridden exports.
C19_AtomicPublication ==
  expLock = "" =>
    \A n \in Names :
       registry[n] # NoModule =>
          LET mine == {k \in Published(heap[registry[n]]) :
                         lookup(exports, k).module = registry[n]}
          IN mine = {} \/ mine = Published(heap[registry[n]])

\* the name of the module a thread's next step installs or publishes
Installing(t) ==
  IF pc[t] = "lm_parse" THEN batch0[t][1].name
  ELSE IF pc[t] = "fm_add" THEN batch0[t][Len(installed[t]) + 1].name
  ELSE IF pc[t] = "fm_process" THEN heap[installed[t][Len(installed[t])]].name
  ELSE "none"

\* C20: a step changes the Registry entry of a name or an Exports Table
\* entry with that module atom only if it is a step of a thread installing a
\* module of that name, and no step removes an Exports Table entry.
C20_InstallFrame ==
  [][\/ registry' = registry /\ exports' = exports
     \/ /\ \A k \in AllMFA :
              lookup(exports, k) # NoEntry => lookup(exports', k) # NoEntry
        /\ \A n \in Names :
              (\/ registry'[n] # registry[n]
               \/ \E k \in AllMFA :
                     k[1] = n /\ lookup(exports', k) # lookup(exports, k))
              => \E t \in Threads : pc'[t] # pc[t] /\ Installing(t) = n]_vars

\* a and b are both resident and published, b installed after a
C20_Witness ==
  /\ regLock = ""
  /\ registry["a"] # NoModule
  /\ registry["b"] > registry["a"]
  /\ lookup(exports, MFA("a", "f", 1)).module = registry["a"]
  /\ lookup(exports, MFA("a", "g", 1)).module = registry["a"]
  /\ lookup(exports, MFA("b", "f", 1)).module = registry["b"]

\* the number of extended grapheme clusters of s, counted by their starts
Clusters(s) == Cardinality({x \in 1..Len(s) : x = 1 \/ ~Extend(s[x])})

\* C16: LineBuffer::insert(ch, n) returns None, without inserting, when the
\* length of the line plus the inserted bytes would exceed the capacity of
\* the buffer; otherwise it returns Some(push), push being true exactly
\* when the cursor was at the end of the line before the insert.
C16_InsertWithinCapacity ==
  [][call'.op = "insert" =>
       IF len(buf) + len_utf8(call'.ch) * call'.n > cap
         THEN ret' = None /\ buf' = buf /\ pos' = pos
         ELSE ret' = Some(pos = len(buf))]_vars

GraphemeBoundary(s, i) ==
  \E k \in 0..Len(s) :
    /\ len(SubSeq(s, 1, k)) = i
    /\ k = 0 \/ k = Len(s) \/ ~Extend(s[k + 1])

\* the call c reported false or None by returning r
Refused(c, r) ==
  IF c.op \in {"insert", "delete"} THEN r = None
  ELSE IF c.op \in {"move_backward", "move_forward", "move_home", "move_end",
                    "backspace", "kill_line", "discard_line"}
         THEN r = <<FALSE>>
         ELSE FALSE

\* C21: after every call of insert, move_backward, move_forward, move_home,
\* move_end, delete, backspace, kill_line, discard_line, clear, update and
\* delete_range that returns, the cursor is within 0..len and on a grapheme
\* boundary of the line; a call that reports false or None leaves the line
\* and the cursor as they were.
C21_CursorInvariant ==
  [][returned' =>
       /\ 0 <= pos' /\ pos' <= len(buf')
       /\ GraphemeBoundary(buf', pos')
       /\ Refused(call', ret') => buf' = buf /\ pos' = pos]_vars

====
